---- MODULE Spec2Model ----
(***************************************************************************)
(* The inventory component UCpp_AC_Inventory of Cpp_AC_Inventory.cpp: an    *)
(* ordered container of item instances with a slot capacity, a weight       *)
(* capacity and a cached total weight.  Item instances live in a heap       *)
(* (Items); a container's InventoryContents is a sequence of references     *)
(* into that heap, so that one instance can be referenced more than once.   *)
(* Weights are integers (the float arithmetic of the source is exact on     *)
(* them).                                                                   *)
(***************************************************************************)
EXTENDS Integers, Sequences, FiniteSets, TLC

\* ---------------------------------------------------------------- bounds
MaxInst == 2
StackMax == 2
MaxSlots == 2
\* how far the cached weight is followed, in units of the items' weight (10):
\* MaxWeightDebt units below zero and MaxWeightLoad units above it
MaxWeightDebt == 1
MaxWeightLoad == 4

\* ------------------------------------------------------------- constants
NullItem == 0
Inventories == {"A", "B"}
NoInventory == "none"
Amounts == 0..(StackMax + 1)
\* the weight capacities a container is constructed with: room for one or
\* for two units of the weight the items below have
WeightCapacities == {10, 20}
\* the values of the cached weight the model follows; the code sets no limit
\* to it in either direction
WeightRange == (-10 * MaxWeightDebt)..(10 * MaxWeightLoad)
ItemKinds == {"stack", "single", "weightless", "negative"}

VARIABLES
    Items,                    \* heap of UItemBase objects, by instance id
    InventoryContents,        \* per container: TArray of instance ids
    InventoryTotalWeight,     \* per container: cached weight
    InventorySlotsCapacity,   \* per container
    InventoryWeightCapacity,  \* per container
    Owner,                    \* per container: GetOwner() is non-null
    lastCall,                 \* the operation that produced this state
    ret,                      \* what that operation returned
    character                 \* ACpp_InventorySystemCharacter: interaction fields

vars == <<Items, InventoryContents, InventoryTotalWeight, InventorySlotsCapacity,
          InventoryWeightCapacity, Owner, lastCall, ret, character>>

Min(a, b) == IF a < b THEN a ELSE b
Max(a, b) == IF a > b THEN a ELSE b

\* ------------------------------------------------------------ UItemBase
\* An item as the world or a catalogue creates it, before any container
\* has seen it.
ItemTemplate(kind, quantity, pickup) ==
    [ID              |-> kind,
     Quantity        |-> quantity,
     Weight          |-> CASE kind = "stack" -> 10
                           [] kind = "single" -> 10
                           [] kind = "weightless" -> 0
                           [] kind = "negative" -> -10,
     bIsStackable    |-> kind = "stack",
     MaxStackSize    |-> IF kind = "stack" THEN StackMax ELSE 1,
     bIsCopy         |-> FALSE,
     bIsPickup       |-> pickup,
     OwningInventory |-> NoInventory]

GetItemSingleWeight(item) == item.Weight

GetItemStackWeight(item) == item.Quantity * item.Weight

IsFullItemStack(item) == item.Quantity = item.MaxStackSize

SetQuantity(item, NewQuantity) ==
    [item EXCEPT !.Quantity =
        IF item.bIsStackable
        THEN Max(0, Min(NewQuantity, item.MaxStackSize))
        ELSE 1]

CreateItemCopy(item) ==
    [item EXCEPT !.bIsCopy = TRUE, !.bIsPickup = FALSE,
                 !.OwningInventory = NoInventory]

ResetItemFlags(item) == [item EXCEPT !.bIsCopy = FALSE, !.bIsPickup = FALSE]

\* FMath::IsNearlyZero on an integer-valued weight
IsNearlyZero(w) == w = 0

\* ------------------------------------------------------- FItemAddResult
AddedNone(msg) ==
    [OperationResult |-> "AddedNone", ActualAmountAdded |-> 0, ResultMessage |-> msg]

AddedSome(n, msg) ==
    [OperationResult |-> "AddedSome", ActualAmountAdded |-> n, ResultMessage |-> msg]

AddedAll(n, msg) ==
    [OperationResult |-> "AddedAll", ActualAmountAdded |-> n, ResultMessage |-> msg]

Returned(n) ==
    [OperationResult |-> "int32", ActualAmountAdded |-> n, ResultMessage |-> ""]

Void == [OperationResult |-> "void", ActualAmountAdded |-> 0, ResultMessage |-> ""]

\* What a query returns: an item of the heap, or NullItem for nullptr.
Found(item) ==
    [OperationResult |-> "UItemBase*", ActualAmountAdded |-> item, ResultMessage |-> ""]

\* The process stopped on an invalid memory access.
Fault == [OperationResult |-> "fault", ActualAmountAdded |-> 0, ResultMessage |-> ""]

\* --------------------------------------------------- TArray primitives
RECURSIVE RemoveSingle(_, _)
RemoveSingle(seq, x) ==
    IF seq = <<>> THEN <<>>
    ELSE IF Head(seq) = x THEN Tail(seq)
    ELSE <<Head(seq)>> \o RemoveSingle(Tail(seq), x)

Contains(seq, x) == \E k \in 1..Len(seq) : seq[k] = x

\* TArray::Find: the index of the first element equal to x, 0 for INDEX_NONE.
Find(seq, x) ==
    IF Contains(seq, x)
    THEN CHOOSE k \in 1..Len(seq) : seq[k] = x /\ \A j \in 1..(k - 1) : seq[j] # x
    ELSE 0

\* ------------------------------------------------- UCpp_AC_Inventory
\* The part of the program one call on container c reads and writes: the
\* item heap and c's own fields, plus the number of OnInventoryUpdated
\* broadcasts the call has raised so far and what a listener that re-queries
\* the container on a broadcast found at the last one.
NothingSeen == [Items |-> <<>>, Contents |-> <<>>, TotalWeight |-> 0]

Store(c) ==
    [Items        |-> Items,
     Contents     |-> InventoryContents[c],
     TotalWeight  |-> InventoryTotalWeight[c],
     Broadcasts   |-> 0,
     Seen         |-> NothingSeen]

\* OnInventoryUpdated.Broadcast(): the listeners run at once and read the
\* container as it is at this point of the call.
Broadcast(S) ==
    [S EXCEPT !.Broadcasts = @ + 1,
              !.Seen       = [Items       |-> S.Items,
                              Contents    |-> S.Contents,
                              TotalWeight |-> S.TotalWeight]]

ActualAmountToRemove(S, InItem, AmountToRemove) ==
    Min(AmountToRemove, S.Items[InItem].Quantity)

\* RemoveAmountOfItem taking an emptied entry out of Contents
RemoveAmountOfItemF_Evicts(S, InItem, AmountToRemove) ==
    LET item   == S.Items[InItem]
        actual == ActualAmountToRemove(S, InItem, AmountToRemove)
    IN  Broadcast(
            [S EXCEPT !.Items[InItem] = SetQuantity(item, item.Quantity - actual),
                      !.Contents      = IF item.Quantity - actual <= 0
                                        THEN RemoveSingle(@, InItem) ELSE @,
                      !.TotalWeight   = @ - actual * GetItemSingleWeight(item)])

RemoveAmountOfItemF(S, InItem, AmountToRemove) ==
    LET item   == S.Items[InItem]
        actual == ActualAmountToRemove(S, InItem, AmountToRemove)
    IN  Broadcast(
            [S EXCEPT !.Items[InItem] = SetQuantity(item, item.Quantity - actual),
                      !.TotalWeight   = @ - actual * GetItemSingleWeight(item)])

\* RemoveSingleInstanceOfItem taking out the last occurrence instead of the
\* first
RemoveSingleInstanceOfItemF_Last(S, ItemToRemove) ==
    LET seq  == S.Contents
        hits == {k \in 1..Len(seq) : seq[k] = ItemToRemove}
    IN  IF hits = {}
        THEN Broadcast(S)
        ELSE LET k == CHOOSE k \in hits : \A j \in hits : j <= k
             IN  Broadcast([S EXCEPT !.Contents =
                               SubSeq(seq, 1, k - 1) \o SubSeq(seq, k + 1, Len(seq))])

RemoveSingleInstanceOfItemF(S, ItemToRemove) ==
    Broadcast([S EXCEPT !.Contents = RemoveSingle(@, ItemToRemove)])

\* AddNewItem adding AddAmount x weight instead of the new stack's weight
AddNewItemF_RequestedWeight(S, c, InItem, AddAmount) ==
    LET item    == S.Items[InItem]
        absorb  == item.bIsCopy \/ item.bIsPickup
        NewItem == IF absorb THEN InItem ELSE Len(S.Items) + 1
        base    == IF absorb THEN ResetItemFlags(item) ELSE CreateItemCopy(item)
        rec     == SetQuantity([base EXCEPT !.OwningInventory = c], AddAmount)
    IN  Broadcast(
            [S EXCEPT !.Items       = IF absorb THEN [@ EXCEPT ![InItem] = rec]
                                      ELSE Append(@, rec),
                      !.Contents    = Append(@, NewItem),
                      !.TotalWeight = @ + AddAmount * GetItemSingleWeight(rec)])

\* AddNewItem raising OnInventoryUpdated before it adds the stack's weight
AddNewItemF_BroadcastFirst(S, c, InItem, AddAmount) ==
    LET item    == S.Items[InItem]
        absorb  == item.bIsCopy \/ item.bIsPickup
        NewItem == IF absorb THEN InItem ELSE Len(S.Items) + 1
        base    == IF absorb THEN ResetItemFlags(item) ELSE CreateItemCopy(item)
        rec     == SetQuantity([base EXCEPT !.OwningInventory = c], AddAmount)
        told    == Broadcast(
                       [S EXCEPT !.Items    = IF absorb THEN [@ EXCEPT ![InItem] = rec]
                                              ELSE Append(@, rec),
                                 !.Contents = Append(@, NewItem)])
    IN  [told EXCEPT !.TotalWeight = @ + GetItemStackWeight(rec)]

AddNewItemF(S, c, InItem, AddAmount) ==
    LET item    == S.Items[InItem]
        absorb  == item.bIsCopy \/ item.bIsPickup
        NewItem == IF absorb THEN InItem ELSE Len(S.Items) + 1
        base    == IF absorb THEN ResetItemFlags(item) ELSE CreateItemCopy(item)
        rec     == SetQuantity([base EXCEPT !.OwningInventory = c], AddAmount)
    IN  Broadcast(
            [S EXCEPT !.Items       = IF absorb THEN [@ EXCEPT ![InItem] = rec]
                                      ELSE Append(@, rec),
                      !.Contents    = Append(@, NewItem),
                      !.TotalWeight = @ + GetItemStackWeight(rec)])

\* SplitExistingStack without its test of the slot capacity
SplitExistingStackF_NoSlotCheck(S, c, InItem, AmountToSplit) ==
    AddNewItemF(RemoveAmountOfItemF(S, InItem, AmountToSplit), c, InItem, AmountToSplit)

SplitExistingStackF(S, c, InItem, AmountToSplit) ==
    IF ~(Len(S.Contents) + 1 > InventorySlotsCapacity[c])
    THEN AddNewItemF(RemoveAmountOfItemF(S, InItem, AmountToSplit), c, InItem, AmountToSplit)
    ELSE S

\* CalculateWeightAddAmount converting the quotient with a cast, which drops
\* the fraction towards zero, instead of FMath::FloorToInt
CalculateWeightAddAmount_Truncating(S, c, InItem, AddAmount) ==
    LET room == InventoryWeightCapacity[c] - S.TotalWeight
        w    == GetItemSingleWeight(S.Items[InItem])
        WeightMaxAddAmount == IF room >= 0 THEN room \div w ELSE -((-room) \div w)
    IN  IF WeightMaxAddAmount >= AddAmount THEN AddAmount ELSE WeightMaxAddAmount

CalculateWeightAddAmount(S, c, InItem, AddAmount) ==
    LET WeightMaxAddAmount ==
            (InventoryWeightCapacity[c] - S.TotalWeight)
                \div GetItemSingleWeight(S.Items[InItem])
    IN  IF WeightMaxAddAmount >= AddAmount THEN AddAmount ELSE WeightMaxAddAmount

CalculateNumberForFullStack(S, StackableItem, InitialAddAmount) ==
    LET AddAmountToMakeFullStack ==
            S.Items[StackableItem].MaxStackSize - S.Items[StackableItem].Quantity
    IN  Min(InitialAddAmount, AddAmountToMakeFullStack)

\* HandleNonStackableItems testing the weight for zero only
HandleNonStackableItemsF_ZeroOnly(S, c, InItem) ==
    LET w == GetItemSingleWeight(S.Items[InItem])
    IN  IF IsNearlyZero(w)
        THEN [store |-> S, result |-> AddedNone("Item Has No Weight!")]
        ELSE IF S.TotalWeight + w > InventoryWeightCapacity[c]
        THEN [store |-> S, result |-> AddedNone("Item overflows weight limit!")]
        ELSE IF Len(S.Contents) + 1 > InventorySlotsCapacity[c]
        THEN [store |-> S, result |-> AddedNone("No Free Inventory Slot!")]
        ELSE [store  |-> AddNewItemF(S, c, InItem, 1),
              result |-> AddedAll(1, "Successfully added to the inventory!")]

\* HandleNonStackableItems with the slot test off by one
HandleNonStackableItemsF_SlotOffByOne(S, c, InItem) ==
    LET w == GetItemSingleWeight(S.Items[InItem])
    IN  IF IsNearlyZero(w) \/ w < 0
        THEN [store |-> S, result |-> AddedNone("Item Has No Weight!")]
        ELSE IF S.TotalWeight + w > InventoryWeightCapacity[c]
        THEN [store |-> S, result |-> AddedNone("Item overflows weight limit!")]
        ELSE IF Len(S.Contents) > InventorySlotsCapacity[c]
        THEN [store |-> S, result |-> AddedNone("No Free Inventory Slot!")]
        ELSE [store  |-> AddNewItemF(S, c, InItem, 1),
              result |-> AddedAll(1, "Successfully added to the inventory!")]

\* HandleNonStackableItems turning away an item that exactly fills the weight
HandleNonStackableItemsF_WeightStrict(S, c, InItem) ==
    LET w == GetItemSingleWeight(S.Items[InItem])
    IN  IF IsNearlyZero(w) \/ w < 0
        THEN [store |-> S, result |-> AddedNone("Item Has No Weight!")]
        ELSE IF S.TotalWeight + w >= InventoryWeightCapacity[c]
        THEN [store |-> S, result |-> AddedNone("Item overflows weight limit!")]
        ELSE IF Len(S.Contents) + 1 > InventorySlotsCapacity[c]
        THEN [store |-> S, result |-> AddedNone("No Free Inventory Slot!")]
        ELSE [store  |-> AddNewItemF(S, c, InItem, 1),
              result |-> AddedAll(1, "Successfully added to the inventory!")]

\* Both handlers yield the store they leave behind and the value they return.
HandleNonStackableItemsF(S, c, InItem) ==
    LET w == GetItemSingleWeight(S.Items[InItem])
    IN  IF IsNearlyZero(w) \/ w < 0
        THEN [store |-> S, result |-> AddedNone("Item Has No Weight!")]
        ELSE IF S.TotalWeight + w > InventoryWeightCapacity[c]
        THEN [store |-> S, result |-> AddedNone("Item overflows weight limit!")]
        ELSE IF Len(S.Contents) + 1 > InventorySlotsCapacity[c]
        THEN [store |-> S, result |-> AddedNone("No Free Inventory Slot!")]
        ELSE [store  |-> AddNewItemF(S, c, InItem, 1),
              result |-> AddedAll(1, "Successfully added to the inventory!")]

HandleStackableItemsF(S, c, InItem, AddAmount) ==
    [store |-> S, result |-> 0]

\* HandleAddItem without the test of GetOwner()
HandleAddItemF_NoOwnerCheck(S, c, InItem) ==
    LET InitialRequestedAddAmount == S.Items[InItem].Quantity
    IN  IF ~S.Items[InItem].bIsStackable
        THEN HandleNonStackableItemsF(S, c, InItem)
        ELSE LET h == HandleStackableItemsF(S, c, InItem, InitialRequestedAddAmount)
                 StackableAmountAdded == h.result
             IN  IF StackableAmountAdded = InitialRequestedAddAmount
                 THEN [store  |-> h.store,
                       result |-> AddedAll(InitialRequestedAddAmount,
                                           "Successfully added to the inventory!")]
                 ELSE IF StackableAmountAdded < InitialRequestedAddAmount
                         /\ StackableAmountAdded > 0
                 THEN [store  |-> h.store,
                       result |-> AddedSome(StackableAmountAdded,
                                            "Could not add all to the inventory.")]
                 ELSE [store  |-> h.store,
                       result |-> AddedNone("No Remaining Slots / Invalid Item!")]

HandleAddItemF(S, c, InItem) ==
    IF Owner[c]
    THEN LET InitialRequestedAddAmount == S.Items[InItem].Quantity
         IN  IF ~S.Items[InItem].bIsStackable
             THEN HandleNonStackableItemsF(S, c, InItem)
             ELSE LET h == HandleStackableItemsF(S, c, InItem, InitialRequestedAddAmount)
                      StackableAmountAdded == h.result
                  IN  IF StackableAmountAdded = InitialRequestedAddAmount
                      THEN [store  |-> h.store,
                            result |-> AddedAll(InitialRequestedAddAmount,
                                                "Successfully added to the inventory!")]
                      ELSE IF StackableAmountAdded < InitialRequestedAddAmount
                              /\ StackableAmountAdded > 0
                      THEN [store  |-> h.store,
                            result |-> AddedSome(StackableAmountAdded,
                                                 "Could not add all to the inventory.")]
                      ELSE [store  |-> h.store,
                            result |-> AddedNone("No Remaining Slots / Invalid Item!")]
    ELSE [store |-> S, result |-> AddedNone("No Owner Found!")]

\* --------------------------------------- ACpp_InventorySystemCharacter
\* The actors a line trace of the character can hit that implement the
\* interaction interface, one that does not, and no actor.
Interactables == {"door", "chest", "pickup"}
NullActor == "null"
Wall == "wall"
TraceHits == Interactables \cup {Wall, NullActor}

\* InteractableData.InteractionDuration, in tenths of a second: a pickup is
\* taken at once, the others take two seconds.
InteractionDuration(actor) == IF actor = "pickup" THEN 0 ELSE 20

\* FMath::IsNearlyZero(duration, 0.1f)
IsNearlyZeroDuration(tenths) == tenths <= 1 /\ tenths >= -1

\* The interaction fields after construction. armedFor remembers the
\* interactable that was current when SetTimer was last called; op and calls
\* are the handler that ran last and the interface calls it made, in order.
CharacterConstructed ==
    [CurrentInteractable |-> NullActor,
     TargetInteractable  |-> NullActor,
     TimerPending        |-> FALSE,
     armedFor            |-> NullActor,
     op                  |-> "Construct",
     calls               |-> <<>>]

\* Every actor of the model is alive, so a reference is valid when it is set.
IsValid(actor) == actor # NullActor

IsInteracting(ch) == ch.TimerPending

ClearTimer(ch) == [ch EXCEPT !.TimerPending = FALSE]

SetTimer(ch) ==
    [ch EXCEPT !.TimerPending = TRUE, !.armedFor = ch.CurrentInteractable]

\* A call of the interaction interface on an actor.
Tell(ch, actor, method) ==
    [ch EXCEPT !.calls = Append(@, [target |-> actor, method |-> method])]

EndInteractF(ch) ==
    LET c1 == ClearTimer(ch)
    IN  IF IsValid(c1.TargetInteractable)
        THEN Tell(c1, c1.TargetInteractable, "EndInteract")
        ELSE c1

InteractF(ch) ==
    LET c1 == ClearTimer(ch)
    IN  IF IsValid(c1.TargetInteractable)
        THEN Tell(c1, c1.TargetInteractable, "Interact")
        ELSE c1

FoundInteractableF(ch, NewInteractable) ==
    LET c1 == IF IsInteracting(ch) THEN EndInteractF(ch) ELSE ch
        c2 == IF c1.CurrentInteractable # NullActor
              THEN Tell([c1 EXCEPT !.TargetInteractable = c1.CurrentInteractable],
                        c1.CurrentInteractable, "EndFocus")
              ELSE c1
        c3 == [c2 EXCEPT !.CurrentInteractable = NewInteractable,
                         !.TargetInteractable  = NewInteractable]
    IN  Tell(c3, NewInteractable, "BeginFocus")

\* NoInteractableFound leaving a pending timer alone
NoInteractableFoundF_KeepsTimer(ch) ==
    IF ch.CurrentInteractable # NullActor
    THEN LET c2 == IF IsValid(ch.TargetInteractable)
                   THEN Tell(ch, ch.TargetInteractable, "EndFocus")
                   ELSE ch
         IN  [c2 EXCEPT !.CurrentInteractable = NullActor,
                        !.TargetInteractable  = NullActor]
    ELSE ch

NoInteractableFoundF(ch) ==
    LET c1 == IF IsInteracting(ch) THEN ClearTimer(ch) ELSE ch
    IN  IF c1.CurrentInteractable # NullActor
        THEN LET c2 == IF IsValid(c1.TargetInteractable)
                       THEN Tell(c1, c1.TargetInteractable, "EndFocus")
                       ELSE c1
             IN  [c2 EXCEPT !.CurrentInteractable = NullActor,
                            !.TargetInteractable  = NullActor]
        ELSE c1

\* hit is the actor the trace met (NullActor when it met none or the
\* character looks backwards), inRange says that its distance is within
\* InteractionCheckDistance.
PerformInteractionCheckF(ch, hit, inRange) ==
    IF hit \in Interactables
    THEN IF hit # ch.CurrentInteractable /\ inRange
         THEN FoundInteractableF(ch, hit)
         ELSE IF hit = ch.CurrentInteractable
         THEN ch
         ELSE NoInteractableFoundF(ch)
    ELSE NoInteractableFoundF(ch)

BeginInteractF(ch, hit, inRange) ==
    LET c1 == PerformInteractionCheckF(ch, hit, inRange)
    IN  IF c1.CurrentInteractable # NullActor /\ IsValid(c1.TargetInteractable)
        THEN LET c2 == Tell(c1, c1.TargetInteractable, "BeginInteract")
             IN  IF IsNearlyZeroDuration(InteractionDuration(c2.TargetInteractable))
                 THEN InteractF(c2)
                 ELSE SetTimer(c2)
        ELSE c1

\* The queries: each gives the set of ways the call can end, Found(item)
\* with NullItem for nullptr, or Fault.
FindMatchingItemF(c, InItem) ==
    IF InItem # NullItem /\ Contains(InventoryContents[c], InItem)
    THEN {Found(InItem)}
    ELSE {Found(NullItem)}

\* FindByKey compares each element, a pointer, with the key, a pointer.
FindNextItemByIDF(c, InItem) ==
    IF InItem # NullItem
    THEN LET seq  == InventoryContents[c]
             hits == {k \in 1..Len(seq) : seq[k] = InItem}
         IN  IF hits # {}
             THEN {Found(seq[CHOOSE k \in hits : \A j \in hits : k <= j])}
             ELSE {Found(NullItem)}
    ELSE {Found(NullItem)}

\* The predicate reads InItem->ID for every entry it visits and nothing
\* tests InItem before: with InItem null and an entry to visit the read is
\* invalid, and the call stops the process or goes on with whatever ID the
\* read gave, which matches any entry that is not a full stack, or none.
FindNextPartialStackF(c, InItem) ==
    LET seq     == InventoryContents[c]
        partial == {k \in 1..Len(seq) : ~IsFullItemStack(Items[seq[k]])}
    IN  IF seq = <<>>
        THEN {Found(NullItem)}
        ELSE IF InItem = NullItem
        THEN {Fault, Found(NullItem)} \cup {Found(seq[k]) : k \in partial}
        ELSE LET hits == {k \in partial : Items[seq[k]].ID = Items[InItem].ID}
             IN  IF hits # {}
                 THEN {Found(seq[CHOOSE k \in hits : \A j \in hits : k <= j])}
                 ELSE {Found(NullItem)}

\* ------------------------------------------------------------- actions
\* What a call on container c with argument InItem leaves in the state.
Call(op, c, InItem, amount) ==
    [op        |-> op,
     inv       |-> c,
     item      |-> InItem,
     amount    |-> amount,
     preLen    |-> Len(InventoryContents[c]),
     preIndex  |-> Find(InventoryContents[c], InItem),
     preWeight |-> InventoryTotalWeight[c],
     preQty    |-> IF InItem = NullItem THEN 0 ELSE Items[InItem].Quantity,
     preCopy   |-> IF InItem = NullItem THEN FALSE
                   ELSE Items[InItem].bIsCopy \/ Items[InItem].bIsPickup,
     broadcasts |-> 0,
     seen       |-> NothingSeen]

\* No call runs after the process has stopped.
Running == ret.OperationResult # "fault"

\* The writes of a call, followed while the heap holds at most limit
\* instances and the cached weight is in WeightRange.
CommitWithin(limit, c, S, call, result) ==
    /\ Running
    /\ Len(S.Items) <= limit
    /\ S.TotalWeight \in WeightRange
    /\ Items' = S.Items
    /\ InventoryContents' = [InventoryContents EXCEPT ![c] = S.Contents]
    /\ InventoryTotalWeight' = [InventoryTotalWeight EXCEPT ![c] = S.TotalWeight]
    /\ lastCall' = [call EXCEPT !.broadcasts = S.Broadcasts, !.seen = S.Seen]
    /\ ret' = result
    /\ UNCHANGED <<InventorySlotsCapacity, InventoryWeightCapacity, Owner, character>>

Commit(c, S, call, result) == CommitWithin(MaxInst, c, S, call, result)

Live == 1..Len(Items)

InContents(c) == {InventoryContents[c][k] : k \in 1..Len(InventoryContents[c])}

\* The world places an item: a pickup that no container owns yet.
SpawnPickup(kind, quantity) ==
    /\ Running
    /\ Len(Items) < MaxInst
    /\ Items' = Append(Items, ItemTemplate(kind, quantity, TRUE))
    /\ lastCall' = [Call("SpawnPickup", "A", NullItem, quantity) EXCEPT
                        !.item = Len(Items) + 1]
    /\ ret' = Void
    /\ UNCHANGED <<InventoryContents, InventoryTotalWeight, InventorySlotsCapacity,
                   InventoryWeightCapacity, Owner, character>>

HandleAddItem(c, InItem) ==
    LET h == HandleAddItemF(Store(c), c, InItem)
    IN  Commit(c, h.store, Call("HandleAddItem", c, InItem, Items[InItem].Quantity), h.result)

HandleNonStackableItems(c, InItem) ==
    LET h == HandleNonStackableItemsF(Store(c), c, InItem)
    IN  Commit(c, h.store, Call("HandleNonStackableItems", c, InItem, 1), h.result)

AddNewItemWithin(limit, c, InItem, AddAmount) ==
    CommitWithin(limit, c, AddNewItemF(Store(c), c, InItem, AddAmount),
                 Call("AddNewItem", c, InItem, AddAmount), Void)

AddNewItem(c, InItem, AddAmount) == AddNewItemWithin(MaxInst, c, InItem, AddAmount)

RemoveSingleInstanceOfItemWithin(limit, c, ItemToRemove) ==
    CommitWithin(limit, c, RemoveSingleInstanceOfItemF(Store(c), ItemToRemove),
                 Call("RemoveSingleInstanceOfItem", c, ItemToRemove, 0), Void)

RemoveSingleInstanceOfItem(c, ItemToRemove) ==
    RemoveSingleInstanceOfItemWithin(MaxInst, c, ItemToRemove)

RemoveAmountOfItem(c, InItem, AmountToRemove) ==
    Commit(c, RemoveAmountOfItemF(Store(c), InItem, AmountToRemove),
           Call("RemoveAmountOfItem", c, InItem, AmountToRemove),
           Returned(ActualAmountToRemove(Store(c), InItem, AmountToRemove)))

SplitExistingStack(c, InItem, AmountToSplit) ==
    Commit(c, SplitExistingStackF(Store(c), c, InItem, AmountToSplit),
           Call("SplitExistingStack", c, InItem, AmountToSplit), Void)

\* A const member function: it ends in one of its outcomes and writes
\* nothing in the container.
Query(op, c, InItem, amount, outcomes) ==
    /\ Running
    /\ lastCall' = Call(op, c, InItem, amount)
    /\ ret' \in outcomes
    /\ UNCHANGED <<Items, InventoryContents, InventoryTotalWeight,
                   InventorySlotsCapacity, InventoryWeightCapacity, Owner, character>>

FindMatchingItem(c, InItem) ==
    Query("FindMatchingItem", c, InItem, 0, FindMatchingItemF(c, InItem))

FindNextItemByID(c, InItem) ==
    Query("FindNextItemByID", c, InItem, 0, FindNextItemByIDF(c, InItem))

FindNextPartialStack(c, InItem) ==
    Query("FindNextPartialStack", c, InItem, 0, FindNextPartialStackF(c, InItem))

\* CalculateWeightAddAmount is not const, but writes nothing.
CallCalculateWeightAddAmount(c, InItem, AddAmount) ==
    Query("CalculateWeightAddAmount", c, InItem, AddAmount,
          {Returned(CalculateWeightAddAmount(Store(c), c, InItem, AddAmount))})

\* A handler of the character runs from start to end on the game thread; the
\* containers are not touched by the code of the handlers themselves.
Handler(op, ch) ==
    /\ Running
    /\ character' = [ch EXCEPT !.op = op]
    /\ UNCHANGED <<Items, InventoryContents, InventoryTotalWeight, InventorySlotsCapacity,
                   InventoryWeightCapacity, Owner, lastCall, ret>>

\* What a handler starts with: the fields, and no interface call made yet.
Entering == [character EXCEPT !.calls = <<>>]

\* Tick, when the time since the last check exceeds InteractionFrequency.
PerformInteractionCheck(hit, inRange) ==
    Handler("PerformInteractionCheck", PerformInteractionCheckF(Entering, hit, inRange))

BeginInteract(hit, inRange) ==
    Handler("BeginInteract", BeginInteractF(Entering, hit, inRange))

EndInteract == Handler("EndInteract", EndInteractF(Entering))

\* The timer manager calls Interact when the duration has passed.
TimerExpires ==
    /\ character.TimerPending
    /\ Handler("TimerExpires", InteractF(Entering))

\* ------------------------------------------------------ specifications
\* One container in use ("A"); the other stays as constructed.
Constructed(slots, weights, owners) ==
    /\ Items = <<>>
    /\ InventoryContents = [c \in Inventories |-> <<>>]
    /\ InventoryTotalWeight = [c \in Inventories |-> 0]
    /\ \E s \in slots :
          InventorySlotsCapacity = [c \in Inventories |-> IF c = "A" THEN s ELSE 0]
    /\ \E w \in weights :
          InventoryWeightCapacity = [c \in Inventories |-> IF c = "A" THEN w ELSE 0]
    /\ \E o \in owners : Owner = [c \in Inventories |-> IF c = "A" THEN o ELSE FALSE]
    /\ lastCall = Call("Construct", "A", NullItem, 0)
    /\ ret = Void
    /\ character = CharacterConstructed

Init == Constructed(1..MaxSlots, WeightCapacities, BOOLEAN)

\* A container attached to its actor, with MaxSlots slots and room for two
\* units of weight.
InitInternal == Constructed({MaxSlots}, {20}, {TRUE})

\* Pickups of the given kinds; a stack lies in the world with at least
\* minStack units.
SpawnOf(kinds, minStack) ==
    \E kind \in kinds :
        \E q \in (IF kind = "stack" THEN minStack..StackMax ELSE {1}) : SpawnPickup(kind, q)

\* The operations the interaction and UI layer invoke.
API(kinds, minStack) ==
    \/ SpawnOf(kinds, minStack)
    \/ \E InItem \in Live : HandleAddItem("A", InItem)
    \/ \E InItem \in Live : RemoveSingleInstanceOfItem("A", InItem)
    \/ \E InItem \in InContents("A"), n \in Amounts : RemoveAmountOfItem("A", InItem, n)
    \/ \E InItem \in InContents("A"), n \in Amounts : SplitExistingStack("A", InItem, n)

NextAPI == API(ItemKinds, 1)

\* The same, plus direct calls of the add handler for the items its caller
\* dispatches to it, the non-stackable ones.
Next ==
    \/ NextAPI
    \/ \E InItem \in Live :
          /\ ~Items[InItem].bIsStackable
          /\ HandleNonStackableItems("A", InItem)

\* Stacks enter a container through the insertion primitive only: the
\* operations above on items of positive weight, plus direct calls of
\* AddNewItem by a caller that has made sure of a free slot, as its callers do.
\* AddNewItem sets the quantity itself, so the pickups are full stacks.
NextInternal ==
    \/ API({"stack", "single"}, StackMax)
    \/ \E InItem \in Live, n \in Amounts :
          /\ Len(InventoryContents["A"]) + 1 <= InventorySlotsCapacity["A"]
          /\ AddNewItem("A", InItem, n)

\* The queries, on any item that exists and on the null reference, between
\* the operations that fill and empty the container.
NextQuery ==
    \/ NextInternal
    \/ \E InItem \in Live \cup {NullItem} : FindMatchingItem("A", InItem)
    \/ \E InItem \in Live \cup {NullItem} : FindNextItemByID("A", InItem)
    \/ \E InItem \in Live \cup {NullItem} : FindNextPartialStack("A", InItem)

\* A container whose weight capacity is no multiple of the items' weight.
InitCalc == Constructed({MaxSlots}, {15, 25}, {TRUE})

\* The weight the container carries goes up by insertions; in between, the
\* add handler asks how many units of an item of positive weight the
\* remaining capacity admits.
NextCalc ==
    \/ SpawnOf({"stack", "single"}, StackMax)
    \/ \E InItem \in Live, n \in Amounts :
          /\ Len(InventoryContents["A"]) + 1 <= InventorySlotsCapacity["A"]
          /\ AddNewItem("A", InItem, n)
    \/ \E InItem \in Live, n \in Amounts : CallCalculateWeightAddAmount("A", InItem, n)

\* The character looks around, presses and releases the interaction key,
\* and time passes.
NextCharacter ==
    \/ \E hit \in TraceHits, inRange \in BOOLEAN : PerformInteractionCheck(hit, inRange)
    \/ \E hit \in TraceHits, inRange \in BOOLEAN : BeginInteract(hit, inRange)
    \/ EndInteract
    \/ TimerExpires

\* A container with one slot more than MaxSlots, so that an entry can stand
\* between two occurrences of one instance.
InitRemove == Constructed({MaxSlots + 1}, {20}, {TRUE})

\* Non-stackable pickups are inserted and entries are taken out, in any
\* order; an insertion may make one copy more than the pickups the world
\* holds. RemoveSingleInstanceOfItem is called with any instance, in
\* Contents or not.
NextRemove ==
    \/ SpawnOf({"single"}, 1)
    \/ \E InItem \in Live :
          /\ Len(InventoryContents["A"]) + 1 <= InventorySlotsCapacity["A"]
          /\ AddNewItemWithin(MaxInst + 1, "A", InItem, 1)
    \/ \E InItem \in Live : RemoveSingleInstanceOfItemWithin(MaxInst + 1, "A", InItem)

\* Two containers in use, each attached to its actor, with MaxSlots slots and
\* room for two units of weight.
InitTwo ==
    /\ Items = <<>>
    /\ InventoryContents = [c \in Inventories |-> <<>>]
    /\ InventoryTotalWeight = [c \in Inventories |-> 0]
    /\ InventorySlotsCapacity = [c \in Inventories |-> MaxSlots]
    /\ InventoryWeightCapacity = [c \in Inventories |-> 20]
    /\ Owner = [c \in Inventories |-> TRUE]
    /\ lastCall = Call("Construct", "A", NullItem, 0)
    /\ ret = Void
    /\ character = CharacterConstructed

\* The operations on either container, with any item that exists: an item
\* that sits in one container may be handed to the other.
NextTwo ==
    \/ SpawnOf({"stack", "single"}, StackMax)
    \/ \E c \in Inventories, InItem \in Live : HandleAddItem(c, InItem)
    \/ \E c \in Inventories : \E InItem \in InContents(c) :
          RemoveSingleInstanceOfItem(c, InItem)
    \/ \E c \in Inventories : \E InItem \in InContents(c), n \in Amounts :
          RemoveAmountOfItem(c, InItem, n)
    \/ \E c \in Inventories : \E InItem \in InContents(c), n \in Amounts :
          SplitExistingStack(c, InItem, n)
    \/ \E c \in Inventories, InItem \in Live, n \in Amounts :
          /\ Len(InventoryContents[c]) + 1 <= InventorySlotsCapacity[c]
          /\ AddNewItem(c, InItem, n)

Spec == Init /\ [][Next]_vars

SpecInternal == InitInternal /\ [][NextInternal]_vars

SpecAPI == Init /\ [][NextAPI]_vars

SpecQuery == InitInternal /\ [][NextQuery]_vars

SpecCalc == InitCalc /\ [][NextCalc]_vars

SpecCharacter == InitInternal /\ [][NextCharacter]_vars

SpecRemove == InitRemove /\ [][NextRemove]_vars

SpecTwo == InitTwo /\ [][NextTwo]_vars

\* -------------------------------------------------------------- claims
RECURSIVE StackWeights(_, _)
StackWeights(heap, seq) ==
    IF seq = <<>> THEN 0
    ELSE GetItemStackWeight(heap[Head(seq)]) + StackWeights(heap, Tail(seq))

\* The weight a container carries: the sum over its entries of
\* quantity x single weight.
CarriedWeight(c) == StackWeights(Items, InventoryContents[c])

Distinct(seq) == \A j, k \in 1..Len(seq) : j # k => seq[j] # seq[k]

\* C1: after every operation the cached InventoryTotalWeight equals the sum
\* over InventoryContents of quantity x single weight.
C1_TotalWeightIsSum == InventoryTotalWeight["A"] = CarriedWeight("A")

\* C2: after every operation of the interface (HandleAddItem,
\* RemoveAmountOfItem, RemoveSingleInstanceOfItem, SplitExistingStack) the
\* number of entries of InventoryContents is at most InventorySlotsCapacity.
C2_SlotsRespected == Len(InventoryContents["A"]) <= InventorySlotsCapacity["A"]

\* a split has filled the last free slot of a container of more than one slot
C2_Witness ==
    /\ lastCall.op = "SplitExistingStack"
    /\ lastCall.broadcasts = 2
    /\ Len(InventoryContents["A"]) = InventorySlotsCapacity["A"]
    /\ InventorySlotsCapacity["A"] > 1

\* C3: after every operation of the interface the weight actually carried
\* does not exceed the weight capacity.
C3_CarriedWeightWithinCapacity == CarriedWeight("A") <= InventoryWeightCapacity["A"]

\* C4: all entries of InventoryContents are pairwise distinct instances.
C4_NoDuplicateInstances == Distinct(InventoryContents["A"])

\* The call that led to the state: its operation, container and arguments,
\* and the values it found there.
Did(op) == lastCall.op = op
Arg == lastCall.item
Inv == lastCall.inv

\* The call took the add path for non-stackable items: HandleNonStackableItems
\* itself, or HandleAddItem on a container that has an owner.
AddedNonStackable ==
    /\ Did("HandleNonStackableItems") \/ (Did("HandleAddItem") /\ Owner[Inv])
    /\ ~Items[Arg].bIsStackable

\* C5 (for the items a stack is split of, the stackable ones):
\* SplitExistingStack(item, k) with item.quantity >= k and a free slot leaves
\* one more entry, the new entry has the item's ID and the two quantities sum
\* to the item's quantity before the call; without a free slot, Contents,
\* the quantities and the cached weight are as before.
C5_SplitKeepsQuantity ==
    (Did("SplitExistingStack") /\ Items[Arg].bIsStackable
        /\ lastCall.preQty >= lastCall.amount) =>
    LET contents == InventoryContents[Inv]
    IN  IF lastCall.preLen + 1 <= InventorySlotsCapacity[Inv]
        THEN /\ Len(contents) = lastCall.preLen + 1
             /\ Items[contents[Len(contents)]].ID = Items[Arg].ID
             /\ Items[contents[Len(contents)]].Quantity + Items[Arg].Quantity
                    = lastCall.preQty
        ELSE /\ Len(contents) = lastCall.preLen
             /\ Items[Arg].Quantity = lastCall.preQty
             /\ InventoryTotalWeight[Inv] = lastCall.preWeight

\* C6: RemoveAmountOfItem(item, n) with n > item.quantity, for any
\* item, returns the previous quantity, leaves the quantity at 0 and lowers
\* the cached weight by previous quantity x single weight.
C6_RemoveClampsAnyItem ==
    (Did("RemoveAmountOfItem") /\ lastCall.amount > lastCall.preQty) =>
        /\ ret.ActualAmountAdded = lastCall.preQty
        /\ Items[Arg].Quantity = 0
        /\ InventoryTotalWeight[Inv]
               = lastCall.preWeight - lastCall.preQty * Items[Arg].Weight

\* C7: HandleAddItem of a stackable item of weight w > 0, with a free slot,
\* whose quantity exceeds floor((WeightCapacity - TotalWeight) / w) >= 1
\* returns AddedSome with that many units.
C7_PartialAdmission ==
    (Did("HandleAddItem") /\ Owner[Inv] /\ Items[Arg].bIsStackable
        /\ Items[Arg].Weight > 0
        /\ lastCall.preLen < InventorySlotsCapacity[Inv]
        /\ (InventoryWeightCapacity[Inv] - lastCall.preWeight) \div Items[Arg].Weight
               \in 1..(lastCall.amount - 1)) =>
        /\ ret.OperationResult = "AddedSome"
        /\ ret.ActualAmountAdded =
               (InventoryWeightCapacity[Inv] - lastCall.preWeight) \div Items[Arg].Weight

\* C8: adding a non-stackable item of weight <= 0 yields AddedNone with the
\* "Item Has No Weight!" message and changes neither Contents nor the cached
\* weight, whatever the occupancy.
C8_NoWeightRejected ==
    [][(AddedNonStackable' /\ Items[Arg'].Weight <= 0) =>
           /\ ret'.OperationResult = "AddedNone"
           /\ ret'.ResultMessage = "Item Has No Weight!"
           /\ UNCHANGED <<Items, InventoryContents, InventoryTotalWeight>>]_vars

\* an item of negative weight was turned away from a container with room
C8_Witness ==
    /\ AddedNonStackable
    /\ Items[Arg].Weight < 0
    /\ ret.ResultMessage = "Item Has No Weight!"
    /\ InventoryContents[Inv] # <<>>
    /\ Len(InventoryContents[Inv]) < InventorySlotsCapacity[Inv]
    /\ InventoryTotalWeight[Inv] < InventoryWeightCapacity[Inv]

\* C9: adding a non-stackable item to a container whose Contents has
\* SlotsCapacity entries yields AddedNone and changes neither Contents nor the
\* cached weight; where the add path for non-stackable items runs and the
\* item's positive weight fits, the message is "No Free Inventory Slot!".
C9_FullContainerRejects ==
    [][((Did("HandleNonStackableItems") \/ Did("HandleAddItem"))'
           /\ ~Items[Arg'].bIsStackable
           /\ Len(InventoryContents[Inv']) = InventorySlotsCapacity[Inv']) =>
           /\ ret'.OperationResult = "AddedNone"
           /\ UNCHANGED <<Items, InventoryContents, InventoryTotalWeight>>
           /\ (AddedNonStackable' /\ Items[Arg'].Weight > 0
                  /\ InventoryTotalWeight[Inv'] + Items[Arg'].Weight
                         <= InventoryWeightCapacity[Inv'])
              => ret'.ResultMessage = "No Free Inventory Slot!"]_vars

\* a second item that fits the weight was turned away for lack of a slot
C9_Witness ==
    /\ AddedNonStackable
    /\ Did("HandleAddItem")
    /\ lastCall.preLen = InventorySlotsCapacity[Inv]
    /\ Len(InventoryContents[Inv]) = InventorySlotsCapacity[Inv]
    /\ Arg \notin {InventoryContents[Inv][k] : k \in 1..Len(InventoryContents[Inv])}
    /\ ret.OperationResult = "AddedNone"
    /\ ret.ResultMessage = "No Free Inventory Slot!"

\* C10: the add path for non-stackable items returns AddedAll(1) exactly when
\* the weight is > 0, TotalWeight + weight <= WeightCapacity and there is a
\* free slot; it then appends one entry of quantity 1 owned by the container
\* and the cached weight grows by the weight; otherwise it returns AddedNone
\* and changes nothing.
C10_NonStackableAdd ==
    [][AddedNonStackable' =>
        LET c == Inv'
            w == Items[Arg'].Weight
            old == InventoryContents[c]
            new == InventoryContents'[c]
        IN  IF w > 0 /\ InventoryTotalWeight[c] + w <= InventoryWeightCapacity[c]
               /\ Len(old) < InventorySlotsCapacity[c]
            THEN /\ ret'.OperationResult = "AddedAll"
                 /\ ret'.ActualAmountAdded = 1
                 /\ Len(new) = Len(old) + 1
                 /\ SubSeq(new, 1, Len(old)) = old
                 /\ Items'[new[Len(new)]].Quantity = 1
                 /\ Items'[new[Len(new)]].OwningInventory = c
                 /\ InventoryTotalWeight'[c] = InventoryTotalWeight[c] + w
            ELSE /\ ret'.OperationResult = "AddedNone"
                 /\ UNCHANGED <<Items, InventoryContents, InventoryTotalWeight>>]_vars

\* an item was appended behind an entry already there, up to the weight limit
C10_Witness ==
    /\ AddedNonStackable
    /\ ret.OperationResult = "AddedAll"
    /\ lastCall.preLen = 1
    /\ Len(InventoryContents[Inv]) = 2
    /\ InventoryTotalWeight[Inv] = InventoryWeightCapacity[Inv]

\* The step removes from the entry the preceding AddNewItem appended the
\* amount that AddNewItem was called with.
RoundTrip ==
    /\ Did("AddNewItem")
    /\ Did("RemoveAmountOfItem")'
    /\ Inv' = Inv
    /\ Arg' = InventoryContents[Inv][Len(InventoryContents[Inv])]
    /\ lastCall'.amount = lastCall.amount

\* C11 as claimed: for any item and any n >= 0, AddNewItem(item, n) followed
\* by RemoveAmountOfItem(the added entry, n) returns the cached weight to its
\* value before the add.
C11_RoundTripAnyItem ==
    [][RoundTrip => InventoryTotalWeight'[Inv] = lastCall.preWeight]_vars

\* C11 as amended: the same for a stackable item and any n >= 0, and for a
\* non-stackable item and any n >= 1.
C11_RoundTripStackable ==
    [][(RoundTrip /\ (Items[Arg'].bIsStackable \/ lastCall.amount >= 1))
           => InventoryTotalWeight'[Inv] = lastCall.preWeight]_vars

\* more units than a stack holds were added and removed again, next to an
\* entry that stayed
C11_Witness ==
    /\ Did("RemoveAmountOfItem")
    /\ Items[Arg].bIsStackable
    /\ lastCall.amount > StackMax
    /\ lastCall.preQty = StackMax
    /\ lastCall.preLen = 2
    /\ Arg = InventoryContents[Inv][2]
    /\ InventoryTotalWeight[Inv] = lastCall.preWeight - StackMax * 10

\* C12: no item instance is in the Contents of both containers, and every
\* entry's OwningInventory names the container whose Contents holds it.
C12_ExclusiveOwnership ==
    /\ InContents("A") \cap InContents("B") = {}
    /\ \A c \in Inventories : \A i \in InContents(c) : Items[i].OwningInventory = c

\* C13: HandleAddItem on a container without owner returns AddedNone with
\* the "No Owner Found!" message for every item, changes neither Contents nor
\* the cached weight and raises no OnInventoryUpdated.
C13_NoOwnerRejected ==
    [][(Did("HandleAddItem")' /\ ~Owner[Inv']) =>
           /\ ret'.OperationResult = "AddedNone"
           /\ ret'.ResultMessage = "No Owner Found!"
           /\ lastCall'.broadcasts = 0
           /\ UNCHANGED <<Items, InventoryContents, InventoryTotalWeight>>]_vars

\* an item that the weight and the slots had room for was turned away from a
\* container that holds an entry and has no owner
C13_Witness ==
    /\ Did("HandleAddItem")
    /\ ~Owner[Inv]
    /\ ret.ResultMessage = "No Owner Found!"
    /\ Items[Arg].Weight > 0
    /\ Len(InventoryContents[Inv]) = 1
    /\ InventorySlotsCapacity[Inv] = 2
    /\ InventoryTotalWeight[Inv] + Items[Arg].Weight <= InventoryWeightCapacity[Inv]

RECURSIVE QuantityOfID(_, _, _)
\* The units of one ID that a sequence of entries holds.
QuantityOfID(heap, seq, id) ==
    IF seq = <<>> THEN 0
    ELSE (IF heap[Head(seq)].ID = id THEN heap[Head(seq)].Quantity ELSE 0)
             + QuantityOfID(heap, Tail(seq), id)

\* C14: HandleAddItem on a stackable item, owner present, returns AddedAll
\* when the units added equal the item's quantity, AddedSome when they lie
\* strictly between 0 and it, AddedNone otherwise; and with AddedAll or
\* AddedSome the units of that ID in Contents have grown by the reported
\* ActualAmountAdded, which is at least 1.
C14_StackableClassified ==
    [][(Did("HandleAddItem")' /\ Owner[Inv'] /\ Items[Arg'].bIsStackable) =>
        LET requested == Items[Arg'].Quantity
            id        == Items[Arg'].ID
            grown     == QuantityOfID(Items', InventoryContents'[Inv'], id)
                             - QuantityOfID(Items, InventoryContents[Inv'], id)
        IN  /\ ret'.OperationResult =
                   IF grown = requested THEN "AddedAll"
                   ELSE IF grown > 0 /\ grown < requested THEN "AddedSome"
                   ELSE "AddedNone"
            /\ ret'.OperationResult \in {"AddedAll", "AddedSome"} =>
                   /\ ret'.ActualAmountAdded = grown
                   /\ ret'.ActualAmountAdded >= 1]_vars

\* C15: RemoveAmountOfItem leaves Contents as it was, entry for entry and in
\* the same order, also when the quantity reaches 0; and an entry of
\* quantity 0 leaves Contents only through RemoveSingleInstanceOfItem
\* called on it, so until then it counts in the length that the slot tests
\* compare with SlotsCapacity.
C15_RemoveAmountKeepsContents ==
    [][/\ Did("RemoveAmountOfItem")' => InventoryContents' = InventoryContents
       /\ \A c \in Inventories : \A i \in InContents(c) :
              (Items[i].Quantity = 0 /\ ~Contains(InventoryContents'[c], i)) =>
                  /\ Did("RemoveSingleInstanceOfItem")'
                  /\ Inv' = c
                  /\ Arg' = i]_vars

\* a stack was emptied by RemoveAmountOfItem and still fills one of the
\* slots of a full container
C15_Witness ==
    /\ Did("RemoveAmountOfItem")
    /\ lastCall.preQty > 0
    /\ Items[Arg].Quantity = 0
    /\ Contains(InventoryContents[Inv], Arg)
    /\ Len(InventoryContents[Inv]) = InventorySlotsCapacity[Inv]

\* C16: RemoveSingleInstanceOfItem(item) takes exactly the first occurrence
\* of the instance out of Contents, nothing when the instance is absent,
\* keeps the other entries in their order, and changes neither the cached
\* weight nor any item.
C16_RemovesFirstOccurrence ==
    [][Did("RemoveSingleInstanceOfItem")' =>
        LET seq == InventoryContents[Inv']
            x   == Arg'
        IN  /\ IF Contains(seq, x)
               THEN LET k == CHOOSE k \in 1..Len(seq) :
                                 seq[k] = x /\ \A j \in 1..(k - 1) : seq[j] # x
                    IN  InventoryContents'[Inv'] =
                            SubSeq(seq, 1, k - 1) \o SubSeq(seq, k + 1, Len(seq))
               ELSE InventoryContents'[Inv'] = seq
            /\ \A c \in Inventories \ {Inv'} : InventoryContents'[c] = InventoryContents[c]
            /\ UNCHANGED <<Items, InventoryTotalWeight>>]_vars

\* Contents was <<x, y, x>>: the first x is gone, y and the second x are
\* left in their order
C16_Witness ==
    /\ Did("RemoveSingleInstanceOfItem")
    /\ lastCall.preLen = 3
    /\ lastCall.preIndex = 1
    /\ Len(InventoryContents[Inv]) = 2
    /\ InventoryContents[Inv][1] # Arg
    /\ InventoryContents[Inv][2] = Arg

\* Contents was <<x, y, z>> with three instances: x is gone, y and z are left
\* in their order
C16_WitnessDistinct ==
    /\ Did("RemoveSingleInstanceOfItem")
    /\ lastCall.preLen = 3
    /\ lastCall.preIndex = 1
    /\ Len(InventoryContents[Inv]) = 2
    /\ ~Contains(InventoryContents[Inv], Arg)
    /\ InventoryContents[Inv][1] < InventoryContents[Inv][2]

\* The operations that change a container.
Mutators ==
    {"AddNewItem", "RemoveAmountOfItem", "RemoveSingleInstanceOfItem",
     "SplitExistingStack", "HandleAddItem"}

\* C17: a call of one of the five operations that changes Contents, an item
\* or the cached weight raises OnInventoryUpdated at least once, and what the
\* listeners read at the last broadcast is the state the call returns with;
\* an add that returns AddedNone and a split refused for lack of a slot
\* raise none.
C17_MutationBeforeNotification ==
    [][(lastCall'.op \in Mutators) =>
        LET c       == Inv'
            changed == \/ Items' # Items
                       \/ InventoryContents'[c] # InventoryContents[c]
                       \/ InventoryTotalWeight'[c] # InventoryTotalWeight[c]
        IN  /\ changed =>
                  /\ lastCall'.broadcasts >= 1
                  /\ lastCall'.seen = [Items       |-> Items',
                                       Contents    |-> InventoryContents'[c],
                                       TotalWeight |-> InventoryTotalWeight'[c]]
            /\ (Did("HandleAddItem")' /\ ret'.OperationResult = "AddedNone") =>
                   lastCall'.broadcasts = 0
            /\ (Did("SplitExistingStack")'
                    /\ Len(InventoryContents[c]) + 1 > InventorySlotsCapacity[c]) =>
                   lastCall'.broadcasts = 0]_vars

\* a split that raised OnInventoryUpdated twice, the second time after the
\* new stack was appended and its weight added
C17_Witness ==
    /\ Did("SplitExistingStack")
    /\ lastCall.broadcasts = 2
    /\ Len(InventoryContents[Inv]) = lastCall.preLen + 1
    /\ lastCall.seen.Contents = InventoryContents[Inv]
    /\ lastCall.seen.TotalWeight = InventoryTotalWeight[Inv]
    /\ lastCall.amount > 0 /\ lastCall.preQty >= lastCall.amount

Queries == {"FindMatchingItem", "FindNextItemByID", "FindNextPartialStack"}

\* C18: each of FindMatchingItem, FindNextItemByID and FindNextPartialStack,
\* called with the null item reference, returns nullptr without a fault and
\* changes no state, whether Contents is empty or not.
C18_NullQueryReturnsNone ==
    [][(lastCall'.op \in Queries /\ Arg' = NullItem) =>
           /\ ret' = Found(NullItem)
           /\ UNCHANGED <<Items, InventoryContents, InventoryTotalWeight,
                          InventorySlotsCapacity, InventoryWeightCapacity, Owner>>]_vars

\* The integer q with q * b <= a < (q + 1) * b, for b > 0.
FloorOfQuotient(a, b) == CHOOSE q \in -40..40 : q * b <= a /\ a < (q + 1) * b

\* C19: for an item of positive weight w and AddAmount >= 0,
\* CalculateWeightAddAmount returns the smaller of AddAmount and
\* floor((WeightCapacity - TotalWeight) / w); when the cached weight is
\* within the capacity the result lies in 0..AddAmount and the cached weight
\* plus result x w stays within the capacity; the call changes no state.
C19_WeightAddAmount ==
    [][Did("CalculateWeightAddAmount")' =>
        LET c      == Inv'
            w      == GetItemSingleWeight(Items[Arg'])
            room   == InventoryWeightCapacity[c] - InventoryTotalWeight[c]
            n      == lastCall'.amount
            result == ret'.ActualAmountAdded
        IN  /\ result = Min(n, FloorOfQuotient(room, w))
            /\ room >= 0 =>
                  /\ result \in 0..n
                  /\ InventoryTotalWeight[c] + result * w <= InventoryWeightCapacity[c]
            /\ UNCHANGED <<Items, InventoryContents, InventoryTotalWeight,
                           InventorySlotsCapacity, InventoryWeightCapacity, Owner>>]_vars

\* the capacity left, 15, admits one unit of weight 10 of the three asked for
C19_Witness ==
    /\ Did("CalculateWeightAddAmount")
    /\ InventoryWeightCapacity[Inv] - InventoryTotalWeight[Inv] = 15
    /\ GetItemSingleWeight(Items[Arg]) = 10
    /\ lastCall.amount = StackMax + 1
    /\ ret.ActualAmountAdded = 1

\* the cached weight is above the capacity and the floor is negative
C19_WitnessNegative ==
    /\ Did("CalculateWeightAddAmount")
    /\ InventoryWeightCapacity[Inv] - InventoryTotalWeight[Inv] = -5
    /\ ret.ActualAmountAdded = -1

\* C20: with IsInteracting() meaning that the interaction timer is pending,
\* the timer is pending only for the interactable that is current, the one
\* BeginInteract armed it for, so never while CurrentInteractable is null and
\* never across a replacement of the current interactable; and the Interact
\* that the timer delivers goes to that interactable and to no other.
C20_TimerFollowsCurrent ==
    /\ character.TimerPending =>
           /\ character.CurrentInteractable # NullActor
           /\ character.CurrentInteractable = character.armedFor
           /\ character.TargetInteractable = character.armedFor
    /\ character.op = "TimerExpires" =>
           character.calls = <<[target |-> character.armedFor, method |-> "Interact"]>>

\* the timer armed for the chest went off while the chest was current and
\* delivered Interact to it
C20_Witness ==
    /\ character.op = "TimerExpires"
    /\ character.armedFor = "chest"
    /\ character.CurrentInteractable = "chest"
    /\ character.calls = <<[target |-> "chest", method |-> "Interact"]>>
    /\ ~character.TimerPending

\* the current interactable was replaced while the timer was pending: the
\* old one was told EndInteract and no timer is left
C20_WitnessReplaced ==
    /\ character.op = "PerformInteractionCheck"
    /\ character.armedFor = "chest"
    /\ character.CurrentInteractable = "door"
    /\ Len(character.calls) = 3
    /\ character.calls[1] = [target |-> "chest", method |-> "EndInteract"]
    /\ ~character.TimerPending

====
